---- MODULE Spec2Model ----
(***************************************************************************)
(* Model of plot_experiment.py: the script that locates the latency        *)
(* logfiles of an experiment directory, aggregates them over the grid of   *)
(* message sizes and publishing frequencies for the modes 'base' and       *)
(* 'trace', and writes the comparison chart, the LaTeX table and the       *)
(* overhead chart.                                                         *)
(*                                                                         *)
(* Strings the code builds or matches (file names, paths, glob patterns)   *)
(* are sequences of one-character strings, so that prefixes, suffixes and  *)
(* str(int) are computed.  Latency values are exact rationals extended     *)
(* with nan/inf/-inf (the values a float64 division by zero produces);     *)
(* the rounding of float64 arithmetic is modelled where a comparison       *)
(* against a threshold is decided by it (the frequency check).             *)
(***************************************************************************)
EXTENDS Integers, Sequences, FiniteSets, TLC

VARIABLES
    argv,            \* the command line arguments handed to main
    disk,            \* what the disk holds: see Disk
    has_raw_latency_data, \* the module-level flag of the same name
    experiment_dir,  \* the module-level global of the same name (None at start)
    pc,              \* position of the script
    mode_i, msg_i, freq_i, \* the loops of plot_mode / plot_diff_mode
    lookups,         \* every get_run_file call so far: its prefix and outcome
    locals,          \* plot_mode: the lists and dict of the message size in progress
    diff_locals,     \* plot_diff_mode: the lists of the message size in progress
    data,            \* plot_mode's results: mode -> (msg, unit) -> freq -> statistics
    plotted,         \* the curves handed to ax.errorbar / ax.plot by plot_mode
    diff_plotted,    \* the curves handed to ax.plot / ax2.plot by plot_diff_mode
    stdout,          \* the lines printed
    written,         \* the files written, in order
    table,           \* the lines printed into the table file
    ret,             \* main's return value: None until it returns, then <<0>> or <<1>>
    exit_code,       \* the exit status of the process: None while it runs
    call,            \* a single function applied to drawn inputs (SpecCalls)
    result           \* its result

vars == <<argv, disk, has_raw_latency_data, experiment_dir, pc, mode_i, msg_i,
          freq_i, lookups, locals, diff_locals, data, plotted, diff_plotted, stdout,
          written,
          table, ret, exit_code, call, result>>

-----------------------------------------------------------------------------
(* Strings *)

Digits == <<"0", "1", "2", "3", "4", "5", "6", "7", "8", "9">>

\* str(n) for an int n >= 0
RECURSIVE str(_)
str(n) == IF n < 10 THEN <<Digits[n + 1]>>
          ELSE str(n \div 10) \o <<Digits[(n % 10) + 1]>>

StartsWith(s, p) == Len(p) <= Len(s) /\ SubSeq(s, 1, Len(p)) = p

EndsWith(s, p) == Len(p) <= Len(s) /\ SubSeq(s, Len(s) - Len(p) + 1, Len(s)) = p

\* s.strip('/')
RECURSIVE lstrip(_)
lstrip(s) == IF s # <<>> /\ Head(s) = "/" THEN lstrip(Tail(s)) ELSE s

RECURSIVE rstrip(_)
rstrip(s) == IF s # <<>> /\ s[Len(s)] = "/" THEN rstrip(SubSeq(s, 1, Len(s) - 1)) ELSE s

strip(s) == rstrip(lstrip(s))

Range(s) == {s[k] : k \in DOMAIN s}

-----------------------------------------------------------------------------
(* Experiment parameters *)

freqs == <<100, 500, 1000, 2000>>

msgs == << <<1, <<"k">> >>, <<32, <<"k">> >>, <<64, <<"k">> >>, <<256, <<"k">> >> >>

runtime_max == 60 * 60 + 10

runtime_ignore == 10

modes == << <<"b", "a", "s", "e">>, <<"t", "r", "a", "c", "e">> >>

-----------------------------------------------------------------------------
(* Run Locator *)

\* The paths glob.glob returns for a pattern: `pre` is the literal text before
\* a wildcard, `star` tells whether the pattern has a '*', `suf` is the
\* literal text after it.  A pattern without wildcard matches the path equal
\* to it; '*' matches any run of characters other than '/'.
glob(pattern, paths) ==
    {p \in paths :
        IF pattern.star
        THEN /\ Len(p) >= Len(pattern.pre) + Len(pattern.suf)
             /\ StartsWith(p, pattern.pre)
             /\ EndsWith(p, pattern.suf)
             /\ "/" \notin Range(SubSeq(p, Len(pattern.pre) + 1,
                                        Len(p) - Len(pattern.suf)))
        ELSE p = pattern.pre}

Literal(text) == [pre |-> text, star |-> FALSE, suf |-> <<>>]

Wildcard(text, after) == [pre |-> text, star |-> TRUE, suf |-> after]

DotPdf == <<".", "p", "d", "f">>

\* matching_files of get_file_from_prefix
Matching(exp_dir_prefix, paths) ==
    glob(Literal(exp_dir_prefix), paths) \ glob(Wildcard(exp_dir_prefix, DotPdf), paths)

matching_files(dir, prefix, paths) ==
    Matching(<<".", "/">> \o dir \o <<"/">> \o prefix, paths)

\* get_file_from_prefix: the assertion fails unless exactly one file matches;
\* the outcome is the path returned, or the failed assertion.
Asserted(matching) ==
    IF Cardinality(matching) = 1
    THEN [ok |-> TRUE, path |-> CHOOSE p \in matching : TRUE]
    ELSE [ok |-> FALSE, path |-> <<>>]

get_file_from_prefix(dir, prefix, paths) == Asserted(matching_files(dir, prefix, paths))

get_experiment_run_name(mode, msg, msg_unit, freq) ==
    <<"1", "-">> \o mode \o <<"_", "A", "r", "r", "a", "y">> \o str(msg) \o msg_unit
        \o <<"_">> \o str(freq) \o <<"h", "z", "_", "s">>

get_run_file(dir, mode, msg, msg_unit, freq, paths) ==
    get_file_from_prefix(dir, get_experiment_run_name(mode, msg, msg_unit, freq), paths)

-----------------------------------------------------------------------------
(* Numbers *)

\* A latency value: an exact rational n/d in lowest terms (d > 0), or one of
\* the special values of float64 arithmetic.
NaN == [kind |-> "nan", n |-> 0, d |-> 1]

PosInf == [kind |-> "inf", n |-> 1, d |-> 1]

NegInf == [kind |-> "inf", n |-> -1, d |-> 1]

Abs(x) == IF x < 0 THEN -x ELSE x

RECURSIVE GCD(_, _)
GCD(a, b) == IF b = 0 THEN a ELSE GCD(b, a % b)

\* n / d with the common factor g > 0 of n and d removed and d made positive
Reduced(n, d, g) ==
    IF d < 0 THEN [kind |-> "fin", n |-> (-n) \div g, d |-> (-d) \div g]
    ELSE [kind |-> "fin", n |-> n \div g, d |-> d \div g]

Fin(n, d) == Reduced(n, d, GCD(Abs(n), Abs(d)))

IsFin(x) == x.kind = "fin"

IsNaN(x) == x.kind = "nan"

Sign(x) == IF x.n > 0 THEN 1 ELSE IF x.n < 0 THEN -1 ELSE 0

Infinity(sign) == IF sign > 0 THEN PosInf ELSE NegInf

FNeg(x) == IF IsNaN(x) THEN NaN ELSE [x EXCEPT !.n = -x.n]

FAdd(x, y) ==
    CASE IsNaN(x) \/ IsNaN(y) -> NaN
      [] IsFin(x) /\ IsFin(y) -> Fin(x.n * y.d + y.n * x.d, x.d * y.d)
      [] IsFin(x) -> y
      [] IsFin(y) -> x
      [] OTHER -> IF x = y THEN x ELSE NaN

FSub(x, y) == FAdd(x, FNeg(y))

FMul(x, y) ==
    CASE IsNaN(x) \/ IsNaN(y) -> NaN
      [] IsFin(x) /\ IsFin(y) -> Fin(x.n * y.n, x.d * y.d)
      [] Sign(x) * Sign(y) = 0 -> NaN
      [] OTHER -> Infinity(Sign(x) * Sign(y))

\* float64 division: x / 0 is nan for x = 0 and an infinity otherwise
FDiv(x, y) ==
    CASE IsNaN(x) \/ IsNaN(y) -> NaN
      [] IsFin(x) /\ IsFin(y) ->
            IF y.n # 0 THEN Fin(x.n * y.d, x.d * y.n)
            ELSE IF x.n = 0 THEN NaN ELSE Infinity(Sign(x))
      [] IsFin(x) -> Fin(0, 1)
      [] IsFin(y) -> Infinity(Sign(x) * (IF y.n < 0 THEN -1 ELSE 1))
      [] OTHER -> NaN

\* x <= y; every comparison with nan is false
FLe(x, y) ==
    CASE IsNaN(x) \/ IsNaN(y) -> FALSE
      [] IsFin(x) /\ IsFin(y) -> x.n * y.d <= y.n * x.d
      [] IsFin(x) -> Sign(y) > 0
      [] IsFin(y) -> Sign(x) < 0
      [] OTHER -> Sign(x) <= Sign(y)

FLt(x, y) == FLe(x, y) /\ x # y

Num(n) == Fin(n, 1)

-----------------------------------------------------------------------------
(* Series *)

\* A pandas Series of floats is a sequence of runs [v |-> value, n |-> count]:
\* a run stands for n > 0 consecutive samples equal to v, so that a series of
\* 3600 * freq samples can be written down.

RECURSIVE Size(_)
Size(s) == IF s = <<>> THEN 0 ELSE Head(s).n + Size(Tail(s))

\* k * series, elementwise
Scale(k, s) == [i \in DOMAIN s |-> [v |-> FMul(k, s[i].v), n |-> s[i].n]]

\* series.sum(): nan entries are skipped (skipna) and the empty sum is 0
RECURSIVE SeriesSum(_)
SeriesSum(s) ==
    IF s = <<>> THEN Num(0)
    ELSE IF IsNaN(Head(s).v) THEN SeriesSum(Tail(s))
    ELSE FAdd(FMul(Head(s).v, Num(Head(s).n)), SeriesSum(Tail(s)))

\* series.mean(): nan for the empty series
SeriesMean(s) == IF s = <<>> THEN NaN ELSE FDiv(SeriesSum(s), Num(Size(s)))

FMin(x, y) == IF FLe(x, y) THEN x ELSE y

FMax(x, y) == IF FLe(y, x) THEN x ELSE y

\* series.min(): nan for the empty series
RECURSIVE SeriesMin(_)
SeriesMin(s) ==
    IF s = <<>> THEN NaN
    ELSE IF Len(s) = 1 THEN Head(s).v
    ELSE FMin(Head(s).v, SeriesMin(Tail(s)))

\* series.max(): nan for the empty series
RECURSIVE SeriesMax(_)
SeriesMax(s) ==
    IF s = <<>> THEN NaN
    ELSE IF Len(s) = 1 THEN Head(s).v
    ELSE FMax(Head(s).v, SeriesMax(Tail(s)))

Square(x) == FMul(x, x)

\* sum of the squared deviations from m
RECURSIVE SquaredDeviations(_, _)
SquaredDeviations(s, m) ==
    IF s = <<>> THEN Num(0)
    ELSE FAdd(FMul(Square(FSub(Head(s).v, m)), Num(Head(s).n)),
              SquaredDeviations(Tail(s), m))

\* The square root of x, kept symbolic: [sqrt |-> x]
Sqrt(x) == [sqrt |-> x]

\* series.std(): the sample standard deviation (ddof = 1), nan for fewer
\* than two samples
SeriesStd(s) ==
    IF s = <<>> THEN Sqrt(NaN)
    ELSE Sqrt(FDiv(SquaredDeviations(s, SeriesMean(s)), Num(Size(s) - 1)))

-----------------------------------------------------------------------------
(* float64 quotient of two integers *)

\* the largest e >= 0 with b * 2^e <= a, for a >= b > 0
RECURSIVE Log2Up(_, _)
Log2Up(a, b) == IF 2 * b > a THEN 0 ELSE 1 + Log2Up(a, 2 * b)

\* the smallest m >= 0 with a * 2^m >= b, for a > 0
RECURSIVE Log2Down(_, _)
Log2Down(a, b) == IF a >= b THEN 0 ELSE 1 + Log2Down(2 * a, b)

\* the binary exponent e of a / b: 2^e <= a / b < 2^(e + 1)
Exponent(a, b) == IF a >= b THEN Log2Up(a, b) ELSE -Log2Down(a, b)

\* 2^k mod m
RECURSIVE Pow2Mod(_, _)
Pow2Mod(k, m) == IF k = 0 THEN 1 % m ELSE (2 * Pow2Mod(k - 1, m)) % m

\* The direction in which float(a) / float(b) is rounded (round to nearest,
\* ties to even, 53 significant bits), for integers a >= 0 and b > 0 that
\* float() represents exactly: -1 when the float64 quotient is below a / b,
\* 1 when it is above, 0 when a / b is a float64.  With k = 52 - e the
\* quotient is the integer nearest to a * 2^k / b, scaled by 2^-k; the
\* remainder r of a * 2^k by b decides the direction, and on a tie the
\* parity of the integer part does.
RoundingBy(r, t, b) ==
    IF r = 0 THEN 0
    ELSE IF 2 * r < b THEN -1
    ELSE IF 2 * r > b THEN 1
    ELSE IF t >= b THEN 1 ELSE -1

\* the remainder of a * 2^k by m
ScaledMod(a, k, m) == ((a % m) * Pow2Mod(k, m)) % m

RoundingAt(a, b, k) == RoundingBy(ScaledMod(a, k, b), ScaledMod(a, k, 2 * b), b)

RoundingOf(a, b) == IF a = 0 THEN 0 ELSE RoundingAt(a, b, 52 - Exponent(a, b))

\* float(a) / float(b): the exact quotient and the direction of its rounding
Float64Div(a, b) == [val |-> Fin(a, b), err |-> RoundingOf(a, b)]

-----------------------------------------------------------------------------
(* Latency Aggregator *)

\* load_logfile_raw: the 'raw_latencies' array of the JSON file
load_logfile_raw(filename, content) == content[filename].raw_latencies

\* load_logfile of apex_performance_plotter: the table of the logfile, one
\* row [received, latency_mean] per window
load_logfile(filename, content) == content[filename].windows

\* latency_mean.mean(): the mean of the window means, the counts left out
UnweightedMean(dataframe) ==
    SeriesMean([i \in DOMAIN dataframe |-> [v |-> dataframe[i].latency_mean, n |-> 1]])

\* (received * latency_mean).sum() / received.sum() for the table dataframe
WeightedMean(dataframe) ==
    FDiv(SeriesSum([i \in DOMAIN dataframe |->
                        [v |-> FMul(Num(dataframe[i].received), dataframe[i].latency_mean),
                         n |-> 1]]),
         SeriesSum([i \in DOMAIN dataframe |->
                        [v |-> Num(dataframe[i].received), n |-> 1]]))

\* get_latency_data: the mean of the window means weighted by the number of
\* received messages
get_latency_data(run_file, content) == WeightedMean(load_logfile(run_file, content))

\* mean, standard deviation, minimum and maximum of a series, and the series
Describe(raw_latencies) ==
    [mean |-> SeriesMean(raw_latencies),
     stdev |-> SeriesStd(raw_latencies),
     min |-> SeriesMin(raw_latencies),
     max |-> SeriesMax(raw_latencies),
     raw |-> raw_latencies]

\* the statistics of the series left in seconds
get_latency_data_raw_seconds(run_file, content) ==
    Describe(load_logfile_raw(run_file, content))

\* get_latency_data_raw: the statistics of the series in milliseconds
get_latency_data_raw(run_file, content) ==
    Describe(Scale(Num(1000), load_logfile_raw(run_file, content)))

-----------------------------------------------------------------------------
(* Frequency Estimator *)

\* the estimate over the whole runtime, the ignored start included
get_approximate_frequency_whole_runtime(raw_latencies) ==
    Float64Div(Size(raw_latencies), runtime_max)

get_approximate_frequency(raw_latencies) ==
    Float64Div(Size(raw_latencies), runtime_max - runtime_ignore)

\* math.isclose(0, x) with the default tolerances (rel_tol = 1e-09,
\* abs_tol = 0.0): |x| <= 1e-09 * |x|, which only x = 0 satisfies; the
\* float64 quotient of two integers is 0 only when the numerator is 0
isclose0(x) == x.val.n = 0

\* abs(freq - approx_freq) <= 0.1 in float64, for an integer freq >= 1 and
\* approx_freq = count / 3600.  The float64 0.1 is 0.1 + 2^-55 / 5 and the
\* exact |freq - count / 3600| is a multiple of 1 / 3600: below 1/10 the
\* comparison holds and above it fails whatever the rounding (of the
\* quotient, and of a difference that is not exact, which is then above
\* freq / 2).  At exactly 1/10 the subtraction is exact and the rounding
\* error of the quotient, at least a fifth of a unit in its last place,
\* exceeds 2^-55 / 5: the comparison holds when the quotient was rounded
\* towards freq and fails when it was rounded away from it.
TenthOrLess(exact, err) ==
    \/ FLt(exact, Fin(1, 10)) /\ FLt(Fin(-1, 10), exact)
    \/ exact = Fin(1, 10) /\ err >= 0
    \/ exact = Fin(-1, 10) /\ err <= 0

WithinTenth(freq, approx_freq) ==
    TenthOrLess(FSub(Num(freq), approx_freq.val), approx_freq.err)

\* is_freq_good of plot_mode
is_freq_good(freq, approx_freq) ==
    ~isclose0(approx_freq) /\ WithinTenth(freq, approx_freq)

-----------------------------------------------------------------------------
(* Comparison Renderer: the pure parts *)

get_full_message_size_unit(simple_unit) ==
    IF simple_unit = <<"k">> THEN "KiB" ELSE "MiB"

\* The line plot_mode prints about the frequency of a run
FrequencyLine(mode, msg, msg_unit, freq, approx_freq) ==
    [mode |-> mode, msg |-> msg, unit |-> get_full_message_size_unit(msg_unit),
     freq |-> freq, approx_freq |-> approx_freq,
     good |-> is_freq_good(freq, approx_freq)]

\* plot_mode's inner loop in raw mode, for the statistics d of the run
RawRun(mode, msg, msg_unit, freq, d) ==
    [latency_mean |-> d.mean,
     latency_stdev |-> <<d.stdev>>,
     entry |-> <<[min |-> d.min, mean |-> d.mean, max |-> d.max, stdev |-> d.stdev]>>,
     printed |-> <<FrequencyLine(mode, msg, msg_unit, freq,
                                 get_approximate_frequency(d.raw))>>]

\* plot_mode's inner loop in summarized mode
SummaryRun(latency_mean) ==
    [latency_mean |-> latency_mean, latency_stdev |-> <<>>, entry |-> <<>>,
     printed |-> <<>>]

\* The body of plot_mode's inner loop once the run file is found: the mean
\* and standard deviation appended to the lists, the entry stored in
\* data_freq (raw mode only) and the line printed (raw mode only).
plot_mode_run(mode, msg, msg_unit, freq, run_file, content, raw_mode) ==
    IF raw_mode
    THEN RawRun(mode, msg, msg_unit, freq, get_latency_data_raw(run_file, content))
    ELSE SummaryRun(get_latency_data(run_file, content))

\* the overhead taken relative to the traced latency
overhead_of_trace(latency_base, latency_trace) ==
    FDiv(FMul(Num(100), FSub(latency_trace, latency_base)), latency_trace)

\* overhead of plot_diff_mode, in percent
overhead(latency_base, latency_trace) ==
    FDiv(FMul(Num(100), FSub(latency_trace, latency_base)), latency_base)

\* What plot_diff_mode records for the means of a base and a traced run
Overheads(latency_mean_base, latency_mean_trace) ==
    [percent |-> overhead(latency_mean_base, latency_mean_trace),
     latency_mean_diff |-> FSub(latency_mean_trace, latency_mean_base)]

\* latency mean of a run file, as plot_diff_mode gets it
latency_mean_of(run_file, content, raw_mode) ==
    IF raw_mode THEN get_latency_data_raw(run_file, content).mean
    ELSE get_latency_data(run_file, content)

\* The body of plot_diff_mode's inner loop once both run files are found
plot_diff_run(run_file_base, run_file_trace, content, raw_mode) ==
    Overheads(latency_mean_of(run_file_base, content, raw_mode),
              latency_mean_of(run_file_trace, content, raw_mode))

-----------------------------------------------------------------------------
(* The results table *)

\* floor of the square root of x, for 0 <= x < 46340^2
RECURSIVE Bisect(_, _, _)
Bisect(lo, hi, x) ==
    IF hi - lo <= 1 THEN lo
    ELSE LET mid == (lo + hi) \div 2
         IN  IF mid * mid <= x THEN Bisect(mid, hi, x) ELSE Bisect(lo, mid, x)

ISqrt(x) == Bisect(0, 46340, x)

\* zero-padded str(n) of width 3
Pad3(n) == IF n < 10 THEN <<"0", "0">> \o str(n)
           ELSE IF n < 100 THEN <<"0">> \o str(n) ELSE str(n)

\* the text of a number of thousandths
Thousandths(m) ==
    (IF m < 0 THEN <<"-">> ELSE <<>>) \o str(Abs(m) \div 1000) \o <<".">>
        \o Pad3(Abs(m) % 1000)

\* x * 1000 rounded to the nearest integer, ties to even
RoundMilli(x) ==
    LET num == 1000 * Abs(x.n)
        q == num \div x.d
        r == num % x.d
        up == 2 * r > x.d \/ (2 * r = x.d /\ q % 2 = 1)
    IN  Sign(x) * (IF up THEN q + 1 ELSE q)

\* f'{x:.3f}'
Fmt3(x) ==
    CASE IsNaN(x) -> <<"n", "a", "n">>
      [] IsFin(x) -> Thousandths(RoundMilli(x))
      [] OTHER -> (IF Sign(x) < 0 THEN <<"-">> ELSE <<>>) \o <<"i", "n", "f">>

\* f'{s:.3f}' for a standard deviation s = sqrt(x), x >= 0:
\* round(1000 * sqrt(x)) = (isqrt(4 * 10^6 * x) + 1) div 2
Fmt3Sqrt(s) ==
    IF IsFin(s.sqrt)
    THEN Thousandths((ISqrt((4000000 * s.sqrt.n) \div s.sqrt.d) + 1) \div 2)
    ELSE Fmt3(s.sqrt)

\* One line of the table file.  kind is "before" (the header block), "row",
\* "cline" ('\cline{2-7}'), "hline" ('\hline') or "after" (the footer block);
\* the fields after kind are the cells of a row and are empty otherwise.
\* msg_col is <<>> or <<rows, msg>> for '\multirow{rows}{*}{msg}', freq_col is
\* <<>> or <<2, freq>>.
TableLine(kind) ==
    [kind |-> kind, col_type |-> "", msg_col |-> <<>>, freq_col |-> <<>>,
     d_min |-> <<>>, d_mean |-> <<>>, d_max |-> <<>>, d_stdev |-> <<>>]

\* print_data of export_table
print_data(col_type, msg_col, freq_col, d) ==
    [kind |-> "row", col_type |-> col_type, msg_col |-> msg_col,
     freq_col |-> freq_col, d_min |-> Fmt3(d.min), d_mean |-> Fmt3(d.mean),
     d_max |-> Fmt3(d.max), d_stdev |-> Fmt3Sqrt(d.stdev)]

\* freqs.index(freq), counted from 0
RECURSIVE index(_, _)
index(list, x) == IF Head(list) = x THEN 0 ELSE 1 + index(Tail(list), x)

\* the lines for one (msg, freq) with a '\cline{2-7}' after every pair
table_pair_always_cline(msg_key, freq, data_base, data_trace) ==
    <<print_data("N",
                 IF 0 = index(freqs, freq) THEN <<Len(freqs) * 2, msg_key[1]>> ELSE <<>>,
                 <<2, freq>>, data_base[msg_key][freq]),
      print_data("Y", <<>>, <<>>, data_trace[msg_key][freq]),
      TableLine("cline")>>
    \o (IF index(freqs, freq) = Len(freqs) - 1 /\ index(msgs, msg_key) # Len(msgs) - 1
        THEN <<TableLine("hline")>> ELSE <<>>)

\* The lines export_table prints for one (msg, freq) of its loops
table_pair(msg_key, freq, data_base, data_trace) ==
    <<print_data("N",
                 IF 0 = index(freqs, freq) THEN <<Len(freqs) * 2, msg_key[1]>> ELSE <<>>,
                 <<2, freq>>, data_base[msg_key][freq]),
      print_data("Y", <<>>, <<>>, data_trace[msg_key][freq])>>
    \o (IF index(freqs, freq) # Len(freqs) - 1 THEN <<TableLine("cline")>> ELSE <<>>)
    \o (IF index(freqs, freq) = Len(freqs) - 1 /\ index(msgs, msg_key) # Len(msgs) - 1
        THEN <<TableLine("hline")>> ELSE <<>>)

\* Whether export_table's lookup data[(msg, msg_unit)][freq] raises KeyError
HasEntry(d, msg_key, freq) == msg_key \in DOMAIN d /\ freq \in DOMAIN d[msg_key]

\* `lines`, followed by what the rest of the loops printed
Printed(lines, rest) == [lines |-> lines \o rest.lines, ok |-> rest.ok]

\* export_table's loops from pair number k on (pairs are numbered in loop
\* order from 0): the lines printed, up to the first KeyError
RECURSIVE table_rows(_, _, _)
table_rows(k, data_base, data_trace) ==
    IF k >= Len(msgs) * Len(freqs) THEN [lines |-> <<>>, ok |-> TRUE]
    ELSE LET msg_key == msgs[(k \div Len(freqs)) + 1]
             freq == freqs[(k % Len(freqs)) + 1]
         IN  IF ~HasEntry(data_base, msg_key, freq)
             THEN [lines |-> <<>>, ok |-> FALSE]
             ELSE IF ~HasEntry(data_trace, msg_key, freq)
             THEN [lines |-> <<table_pair(msg_key, freq, data_base, data_base)[1]>>,
                   ok |-> FALSE]
             ELSE Printed(table_pair(msg_key, freq, data_base, data_trace),
                          table_rows(k + 1, data_base, data_trace))

\* The table file once the loops have printed `rows`
TableFile(rows) ==
    [lines |-> <<TableLine("before")>> \o rows.lines
                    \o (IF rows.ok THEN <<TableLine("after")>> ELSE <<>>),
     ok |-> rows.ok, opened |-> TRUE]

\* export_table: the lines printed into the table file, whether the file
\* was opened, and whether export_table returned (ok) or raised
export_table(data_base, data_trace) ==
    IF DOMAIN data_base = {} \/ DOMAIN data_trace = {}
    THEN [lines |-> <<>>, ok |-> FALSE, opened |-> FALSE]
    ELSE TableFile(table_rows(0, data_base, data_trace))

-----------------------------------------------------------------------------
(* The disk *)

\* The experiment directory on the disk, relative to the working directory
DirName == <<"e">>

PathIn(dir, name) == <<".", "/">> \o dir \o <<"/">> \o name

\* A run of the grid: <<index in modes, index in msgs, index in freqs>>
Runs == (DOMAIN modes) \X (DOMAIN msgs) \X (DOMAIN freqs)

RunName(r) ==
    get_experiment_run_name(modes[r[1]], msgs[r[2]][1], msgs[r[2]][2], freqs[r[3]])

RunNames == [r \in Runs |-> RunName(r)]

\* The suffixes of the files a directory may hold for a run: the bare run
\* name, the run name followed by a mark of the harness, and a '.pdf'
SuffixNone == <<>>

SuffixMark(k) == <<"_">> \o str(k)

\* The files of one run come in these kinds (sets of suffixes)
Kinds ==
    { {},
      {SuffixNone},
      {SuffixMark(1)},
      {SuffixNone, SuffixMark(1)},
      {SuffixMark(1), SuffixMark(2)},
      {SuffixNone, DotPdf},
      {SuffixMark(1), SuffixMark(1) \o DotPdf} }

\* What the files hold.  "short": three samples of 1, 2, 3 ms (base) and
\* 2, 3, 4 ms (trace).  "long": 3600 * freq samples of 1 ms (base) and
\* 3600 * freq + 360 samples of 3/2 ms (trace).  A summarized logfile has two
\* windows.
Schemes == {"short", "long"}

Sample(n, d, count) == [v |-> Fin(n, d), n |-> count]

RawContent(scheme, r) ==
    LET f == freqs[r[3]]
    IN  CASE scheme = "short" /\ r[1] = 1 ->
                <<Sample(1, 1000, 1), Sample(2, 1000, 1), Sample(3, 1000, 1)>>
          [] scheme = "short" /\ r[1] = 2 ->
                <<Sample(2, 1000, 1), Sample(3, 1000, 1), Sample(4, 1000, 1)>>
          [] scheme = "long" /\ r[1] = 1 -> <<Sample(1, 1000, 3600 * f)>>
          [] OTHER -> <<Sample(3, 2000, 3600 * f + 360)>>

Window(received, mean) == [received |-> received, latency_mean |-> Num(mean)]

SummaryContent(r) ==
    IF r[1] = 1 THEN <<Window(10, 5), Window(20, 8)>>
    ELSE <<Window(10, 6), Window(20, 9)>>

Content(scheme, raw_mode, r) ==
    IF raw_mode
    THEN [raw_latencies |-> RawContent(scheme, r), windows |-> <<>>]
    ELSE [raw_latencies |-> <<>>, windows |-> SummaryContent(r)]

\* A disk is described by the kind of files every run has (usual), the runs
\* that have files of another kind (odd), that kind (other), and what the
\* files hold (scheme, raw_mode).  Entries: its <<run, suffix>> pairs.
Entries(d) ==
    {<<r, sfx>> \in Runs \X (d.usual \cup d.other) :
        sfx \in (IF r \in d.odd THEN d.other ELSE d.usual)}

EntryPath(e) == PathIn(DirName, RunNames[e[1]] \o e[2])

\* The paths of the input files of the disk
InputPaths(d) == {EntryPath(e) : e \in Entries(d)}

\* The content of the input file at `path`
ReadFile(d, path) ==
    Content(d.scheme, d.raw_mode, (CHOOSE e \in Entries(d) : EntryPath(e) = path)[1])

-----------------------------------------------------------------------------
(* The script *)

\* The runs whose files are of another kind than the rest: none, or one
OddRuns == {{}} \cup {{r} : r \in Runs}

ArgvMenu == { <<>>, <<DirName>>, <<DirName \o <<"/">> >>, <<<<"x">>>>,
              <<DirName, DirName>> }

figure_latencies == <<"6", "_", "r", "e", "s", "u", "l", "t", "s", "_", "l", "a", "t", "e", "n", "c", "i", "e", "s">>

table_filename == <<"6", "_", "r", "e", "s", "u", "l", "t", "s", "_", "l", "a", "t", "e", "n", "c", "i", "e", "s", "_", "t", "a", "b", "l", "e">>

figure_overhead == <<"6", "_", "r", "e", "s", "u", "l", "t", "s", "_", "o", "v", "e", "r", "h", "e", "a", "d">>

Ext(name) == <<".">> \o name

Png == Ext(<<"p", "n", "g">>)

Svg == Ext(<<"s", "v", "g">>)

Tex == Ext(<<"t", "e", "x">>)

\* the locals of plot_mode for the message size being processed
NoLocals == [data |-> <<>>, msg_freqs |-> <<>>, msg_latencies |-> <<>>,
             msg_latencies_stdev |-> <<>>, data_freq |-> <<>>]

\* the locals of plot_diff_mode for the message size being processed
NoDiffLocals == [msg_freqs |-> <<>>, msg_latency_diff |-> <<>>,
                 msg_latency_diff_percent |-> <<>>]

NoCall == [fn |-> "none"]

\* Python's None, for a variable that otherwise holds a string (a tuple of
\* characters), and for a return value or exit status, which is otherwise
\* <<0>> or <<1>>
None == <<>>

\* The start of the script.  Every command line of ArgvMenu is run on the
\* disks whose runs all have files of the same kind, in both modes and with
\* both schemes; the disks on which one run has files of another kind are
\* processed in raw mode from the command line naming DirName.
Init ==
    /\ argv \in ArgvMenu
    /\ has_raw_latency_data \in BOOLEAN
    /\ \E usual \in Kinds, other \in Kinds, odd \in OddRuns, scheme \in Schemes :
          /\ odd = {} => other = usual
          /\ odd # {} => /\ argv = <<DirName \o <<"/">> >>
                         /\ has_raw_latency_data
                         /\ scheme = "short"
                         /\ other # usual
          /\ ~has_raw_latency_data => scheme = "short"
          /\ disk = [usual |-> usual, other |-> other, odd |-> odd,
                     scheme |-> scheme, raw_mode |-> has_raw_latency_data]
    /\ experiment_dir = None
    /\ pc = "main"
    /\ mode_i = 1 /\ msg_i = 1 /\ freq_i = 1
    /\ lookups = <<>>
    /\ locals = NoLocals
    /\ diff_locals = NoDiffLocals
    /\ data = <<>>
    /\ plotted = <<>>
    /\ diff_plotted = <<>>
    /\ stdout = <<>>
    /\ written = <<>>
    /\ table = <<>>
    /\ ret = None
    /\ exit_code = None
    /\ call = NoCall
    /\ result = NoCall

\* every path of the disk: the input files and the files written
Paths == InputPaths(disk) \cup Range(written)

\* the files read: path |-> content
FilesRead(paths) == [p \in paths |-> ReadFile(disk, p)]

\* main returning 0 when the number of arguments is wrong
MainUsageReturning0 ==
    /\ pc = "main"
    /\ Len(argv) # 1
    /\ stdout' = Append(stdout, "error: must provide only 1 argument")
    /\ ret' = <<0>>
    /\ exit_code' = <<0>>
    /\ pc' = "done"
    /\ UNCHANGED <<argv, disk, has_raw_latency_data, experiment_dir, mode_i,
                   msg_i, freq_i, lookups, locals, diff_locals, data, plotted,
                   diff_plotted, written, table, call, result>>

\* main, when the number of arguments is wrong
MainUsage ==
    /\ pc = "main"
    /\ Len(argv) # 1
    /\ stdout' = Append(stdout, "error: must provide only 1 argument")
    /\ ret' = <<1>>
    /\ exit_code' = <<1>>
    /\ pc' = "done"
    /\ UNCHANGED <<argv, disk, has_raw_latency_data, experiment_dir, mode_i,
                   msg_i, freq_i, lookups, locals, diff_locals, data, plotted,
                   diff_plotted, written, table, call, result>>

\* main up to the call of plot_modes, and the first lines of plot_modes
MainSetup ==
    /\ pc = "main"
    /\ Len(argv) = 1
    /\ experiment_dir' = strip(argv[1])
    /\ stdout' = stdout \o <<"Experiment directory", "frequencies", "messages",
                            "runtime_max", "runtime_ignore",
                            "Approximate pub-sub frequencies:">>
    /\ pc' = "plot_mode"
    /\ mode_i' = 1 /\ msg_i' = 1 /\ freq_i' = 1
    /\ locals' = NoLocals
    /\ UNCHANGED <<argv, disk, has_raw_latency_data, lookups, diff_locals, data,
                   plotted, diff_plotted, written, table, ret, exit_code, call,
                   result>>

Looked(mode, msg_key, freq, found) ==
    [mode |-> mode, msg |-> msg_key[1], freq |-> freq, ok |-> found.ok,
     path |-> found.path]

\* the lists and the dict of plot_mode after an iteration
Filled(loc, freq, run) ==
    [data |-> loc.data,
     msg_freqs |-> Append(loc.msg_freqs, freq),
     msg_latencies |-> Append(loc.msg_latencies, run.latency_mean),
     msg_latencies_stdev |-> loc.msg_latencies_stdev \o run.latency_stdev,
     data_freq |-> IF run.entry = <<>> THEN loc.data_freq
                   ELSE (freq :> run.entry[1]) @@ loc.data_freq]

\* plot_mode after the body of an iteration: the next frequency; after the
\* last one, the curve of the message size is drawn and its dict stored;
\* after the last message size, plot_mode returns its data
PlotModeAdvance(mode, msg_key, filled) ==
    IF freq_i < Len(freqs)
    THEN /\ locals' = filled
         /\ freq_i' = freq_i + 1
         /\ UNCHANGED <<pc, mode_i, msg_i, data, plotted>>
    ELSE /\ plotted' = Append(plotted,
                [mode |-> mode,
                 label |-> <<msg_key[1], get_full_message_size_unit(msg_key[2])>>,
                 x |-> filled.msg_freqs, y |-> filled.msg_latencies,
                 yerr |-> filled.msg_latencies_stdev])
         /\ freq_i' = 1
         /\ IF msg_i < Len(msgs)
            THEN /\ locals' = [filled EXCEPT
                                  !.data = (msg_key :> filled.data_freq) @@ filled.data]
                 /\ msg_i' = msg_i + 1
                 /\ UNCHANGED <<pc, mode_i, data>>
            ELSE /\ data' = Append(data, (msg_key :> filled.data_freq) @@ filled.data)
                 /\ locals' = NoLocals
                 /\ msg_i' = 1
                 /\ IF mode_i < Len(modes)
                    THEN mode_i' = mode_i + 1 /\ pc' = pc
                    ELSE mode_i' = 1 /\ pc' = "savefig_latencies"

\* plot_mode's iteration once the run is aggregated
PlotModeStored(mode, msg_key, freq, run) ==
    /\ stdout' = stdout \o run.printed
    /\ PlotModeAdvance(mode, msg_key,
            Filled(IF freq_i = 1 THEN [NoLocals EXCEPT !.data = locals.data] ELSE locals,
                   freq, run))

\* plot_mode's iteration from the outcome of get_run_file on
PlotModeFound(mode, msg_key, freq, found) ==
    /\ lookups' = Append(lookups, Looked(mode, msg_key, freq, found))
    /\ IF ~found.ok
       THEN /\ pc' = "aborted"
            /\ exit_code' = <<1>>
            /\ UNCHANGED <<mode_i, msg_i, freq_i, locals, data, plotted, stdout>>
       ELSE /\ exit_code' = exit_code
            /\ PlotModeStored(mode, msg_key, freq,
                    plot_mode_run(mode, msg_key[1], msg_key[2], freq, found.path,
                                  FilesRead({found.path}), has_raw_latency_data))

\* One iteration of plot_mode's inner loop, for the mode, message size and
\* frequency the loops are at; after the last frequency of a message size,
\* the rest of the outer loop's body; after the last message size, the rest
\* of plot_mode.  A failed assertion of get_file_from_prefix ends the
\* process: nothing catches it, and the interpreter exits with status 1.
\* (The list msg_latencies_raw, which plot_mode fills and never reads, is
\* left out.)
PlotModeRun ==
    /\ pc = "plot_mode"
    /\ PlotModeFound(modes[mode_i], msgs[msg_i], freqs[freq_i],
            get_run_file(experiment_dir, modes[mode_i], msgs[msg_i][1], msgs[msg_i][2],
                         freqs[freq_i], Paths))
    /\ UNCHANGED <<argv, disk, has_raw_latency_data, experiment_dir, diff_locals,
                   diff_plotted, written, table, ret, call, result>>

\* plot_modes after the two plot_mode calls: the figure is saved three times
SavefigLatencies ==
    /\ pc = "savefig_latencies"
    /\ LET filename == PathIn(experiment_dir, figure_latencies)
       IN  written' = written \o <<filename \o Png, filename \o Svg, filename \o DotPdf>>
    /\ pc' = "export_table"
    /\ UNCHANGED <<argv, disk, has_raw_latency_data, experiment_dir, mode_i, msg_i,
                   freq_i, lookups, locals, diff_locals, data, plotted, diff_plotted,
                   stdout, table, ret, exit_code, call, result>>

ExportTableDone(t) ==
    /\ written' = IF t.opened
                  THEN Append(written, PathIn(experiment_dir, table_filename \o Tex))
                  ELSE written
    /\ table' = t.lines
    /\ IF t.ok
       THEN pc' = "plot_diff_mode" /\ exit_code' = exit_code
       ELSE pc' = "aborted" /\ exit_code' = <<1>>

\* export_table(data_base, data_trace): the file is opened for writing once
\* the two assertions hold; a KeyError ends the process
ExportTable ==
    /\ pc = "export_table"
    /\ ExportTableDone(export_table(data[1], data[2]))
    /\ mode_i' = 1 /\ msg_i' = 1 /\ freq_i' = 1
    /\ diff_locals' = NoDiffLocals
    /\ UNCHANGED <<argv, disk, has_raw_latency_data, experiment_dir, lookups, locals,
                   data, plotted, diff_plotted, stdout, ret, call, result>>

\* the lists of plot_diff_mode after an iteration
DiffFilled(loc, freq, run) ==
    [msg_freqs |-> Append(loc.msg_freqs, freq),
     msg_latency_diff |-> Append(loc.msg_latency_diff, run.latency_mean_diff),
     msg_latency_diff_percent |-> Append(loc.msg_latency_diff_percent, run.percent)]

\* the curves plot_diff_mode draws for a message size: the percentages are
\* drawn in raw mode only
DiffCurves(legend_label, filled) ==
    <<[axis |-> "ax", label |-> legend_label, x |-> filled.msg_freqs,
       y |-> filled.msg_latency_diff]>>
    \o (IF has_raw_latency_data
        THEN <<[axis |-> "ax2", label |-> legend_label, x |-> filled.msg_freqs,
                y |-> filled.msg_latency_diff_percent]>>
        ELSE <<>>)

PlotDiffAdvance(msg_key, filled) ==
    /\ diff_locals' = filled
    /\ IF freq_i < Len(freqs)
       THEN /\ freq_i' = freq_i + 1
            /\ UNCHANGED <<pc, msg_i, diff_plotted>>
       ELSE /\ diff_plotted' = diff_plotted \o
                    DiffCurves(<<msg_key[1], get_full_message_size_unit(msg_key[2])>>,
                               filled)
            /\ freq_i' = 1
            /\ IF msg_i < Len(msgs)
               THEN msg_i' = msg_i + 1 /\ pc' = pc
               ELSE msg_i' = 1 /\ pc' = "savefig_overhead"

\* plot_diff_mode's iteration from the outcomes of the two get_run_file
\* calls on; the second call is not made when the first one fails
PlotDiffFound(msg_key, freq, base, trace) ==
    IF ~base.ok
    THEN /\ lookups' = Append(lookups, Looked(modes[1], msg_key, freq, base))
         /\ pc' = "aborted"
         /\ exit_code' = <<1>>
         /\ UNCHANGED <<msg_i, freq_i, diff_locals, diff_plotted>>
    ELSE /\ lookups' = lookups \o <<Looked(modes[1], msg_key, freq, base),
                                     Looked(modes[2], msg_key, freq, trace)>>
         /\ IF ~trace.ok
            THEN /\ pc' = "aborted"
                 /\ exit_code' = <<1>>
                 /\ UNCHANGED <<msg_i, freq_i, diff_locals, diff_plotted>>
            ELSE /\ exit_code' = exit_code
                 /\ PlotDiffAdvance(msg_key,
                        DiffFilled(IF freq_i = 1 THEN NoDiffLocals ELSE diff_locals, freq,
                            plot_diff_run(base.path, trace.path,
                                          FilesRead({base.path, trace.path}),
                                          has_raw_latency_data)))

\* One iteration of plot_diff_mode's inner loop; after the last frequency of
\* a message size, the rest of the outer loop's body.  The two run files are
\* looked up again, the base one first.
PlotDiffRun ==
    /\ pc = "plot_diff_mode"
    /\ PlotDiffFound(msgs[msg_i], freqs[freq_i],
            get_run_file(experiment_dir, modes[1], msgs[msg_i][1], msgs[msg_i][2],
                         freqs[freq_i], Paths),
            get_run_file(experiment_dir, modes[2], msgs[msg_i][1], msgs[msg_i][2],
                         freqs[freq_i], Paths))
    /\ UNCHANGED <<argv, disk, has_raw_latency_data, experiment_dir, mode_i, locals,
                   data, plotted, stdout, written, table, ret, call, result>>

\* plot_diff_mode after its loops (same_plot is True): the figure is saved
\* three times
SavefigOverhead ==
    /\ pc = "savefig_overhead"
    /\ LET filename == PathIn(experiment_dir, figure_overhead)
       IN  written' = written \o <<filename \o Png, filename \o Svg, filename \o DotPdf>>
    /\ pc' = "show"
    /\ UNCHANGED <<argv, disk, has_raw_latency_data, experiment_dir, mode_i, msg_i,
                   freq_i, lookups, locals, diff_locals, data, plotted, diff_plotted,
                   stdout, table, ret, exit_code, call, result>>

\* plt.show() and main's return 0, which sys.exit makes the exit status
MainReturn ==
    /\ pc = "show"
    /\ ret' = <<0>>
    /\ exit_code' = <<0>>
    /\ pc' = "done"
    /\ UNCHANGED <<argv, disk, has_raw_latency_data, experiment_dir, mode_i, msg_i,
                   freq_i, lookups, locals, diff_locals, data, plotted, diff_plotted,
                   stdout, written, table, call, result>>

Next ==
    \/ MainUsage
    \/ MainSetup
    \/ PlotModeRun
    \/ SavefigLatencies
    \/ ExportTable
    \/ PlotDiffRun
    \/ SavefigOverhead
    \/ MainReturn

Spec == Init /\ [][Next]_vars

-----------------------------------------------------------------------------
(* Single calls: a function of the script applied to inputs drawn from      *)
(* bounded sets, its result kept in `result`                                *)

\* the marks of the files of a directory handed to the locator: _1 .. _MaxMark
MaxMark == 2

\* the rows of a summarized logfile
MaxWindows == 2

\* the runs of equal samples of a raw logfile
MaxSamples == 3

\* the samples of a raw logfile are 0 .. MaxMs thousandths of a second
MaxMs == 3

\* the runs of equal samples of the two logfiles whose overhead is computed
MaxDiffSamples == 1

\* the sample counts tried around 3600 * freq
FreqWindow == 361

\* the sequences over S of length lo .. hi
SeqsOf(S, lo, hi) == UNION {[1..k -> S] : k \in lo..hi}

LocatorRuns == {<<1, 1, 1>>, <<1, 1, 3>>}

LocatorSuffixes ==
    {SuffixNone, DotPdf, SuffixMark(1) \o DotPdf} \cup {SuffixMark(k) : k \in 1..MaxMark}

LocatorFiles ==
    {PathIn(DirName, RunNames[r] \o sfx) : r \in LocatorRuns, sfx \in LocatorSuffixes}

WindowMenu == {Window(received, mean) : received \in {0, 10, 20}, mean \in {0, 5, 8}}

SampleMenu == {Sample(k, 1000, count) : k \in 0..MaxMs, count \in 1..2}

Calls ==
    {[fn |-> "get_run_file", run |-> r, paths |-> P] :
        r \in LocatorRuns, P \in SUBSET LocatorFiles}
    \cup {[fn |-> "get_latency_data", windows |-> w] :
            w \in SeqsOf(WindowMenu, 0, MaxWindows)}
    \cup {[fn |-> "get_latency_data_raw", raw_latencies |-> x] :
            x \in SeqsOf(SampleMenu, 0, MaxSamples)}
    \cup {[fn |-> "plot_diff_run", base |-> b, trace |-> t] :
            b \in SeqsOf(SampleMenu, 1, MaxDiffSamples),
            t \in SeqsOf(SampleMenu, 1, MaxDiffSamples)}
    \cup {[fn |-> "plot_mode_run", freq |-> f, count |-> 3600 * f + d] :
            f \in Range(freqs), d \in (-FreqWindow)..FreqWindow}
    \cup {[fn |-> "plot_mode_run", freq |-> f, count |-> c] :
            f \in Range(freqs), c \in {0, 1}}

InitCalls ==
    /\ call \in Calls
    /\ pc = "call"
    /\ result = NoCall
    /\ argv = <<>>
    /\ has_raw_latency_data = TRUE
    /\ disk = [usual |-> {}, other |-> {}, odd |-> {}, scheme |-> "short",
               raw_mode |-> TRUE]
    /\ experiment_dir = DirName
    /\ mode_i = 1 /\ msg_i = 1 /\ freq_i = 1
    /\ lookups = <<>>
    /\ locals = NoLocals
    /\ diff_locals = NoDiffLocals
    /\ data = <<>>
    /\ plotted = <<>>
    /\ diff_plotted = <<>>
    /\ stdout = <<>>
    /\ written = <<>>
    /\ table = <<>>
    /\ ret = None
    /\ exit_code = None

Returned(value) ==
    /\ result' = value
    /\ pc' = "returned"
    /\ UNCHANGED <<argv, disk, has_raw_latency_data, experiment_dir, mode_i, msg_i,
                   freq_i, lookups, locals, diff_locals, data, plotted, diff_plotted,
                   stdout, written, table, ret, exit_code, call>>

RunFile == <<"r", "u", "n">>

OtherRunFile == <<"o", "t", "h", "e", "r">>

RawFile(raw_latencies) == [raw_latencies |-> raw_latencies, windows |-> <<>>]

CallGetRunFile ==
    /\ pc = "call" /\ call.fn = "get_run_file"
    /\ Returned(get_run_file(experiment_dir, modes[call.run[1]], msgs[call.run[2]][1],
                             msgs[call.run[2]][2], freqs[call.run[3]], call.paths))

CallGetLatencyData ==
    /\ pc = "call" /\ call.fn = "get_latency_data"
    /\ Returned(get_latency_data(RunFile,
                    RunFile :> [raw_latencies |-> <<>>, windows |-> call.windows]))

CallGetLatencyDataRaw ==
    /\ pc = "call" /\ call.fn = "get_latency_data_raw"
    /\ Returned(get_latency_data_raw(RunFile, RunFile :> RawFile(call.raw_latencies)))

CallPlotDiffRun ==
    /\ pc = "call" /\ call.fn = "plot_diff_run"
    /\ Returned(plot_diff_run(RunFile, OtherRunFile,
                    (RunFile :> RawFile(call.base)) @@ (OtherRunFile :> RawFile(call.trace)),
                    has_raw_latency_data))

\* the logfile of a run that delivered `count` samples of 1 ms
Delivered(count) == IF count = 0 THEN <<>> ELSE <<Sample(1, 1000, count)>>

CallPlotModeRun ==
    /\ pc = "call" /\ call.fn = "plot_mode_run"
    /\ Returned(plot_mode_run(modes[1], msgs[1][1], msgs[1][2], call.freq, RunFile,
                    RunFile :> RawFile(Delivered(call.count)), has_raw_latency_data))

NextCalls ==
    \/ CallGetRunFile
    \/ CallGetLatencyData
    \/ CallGetLatencyDataRaw
    \/ CallPlotDiffRun
    \/ CallPlotModeRun

SpecCalls == InitCalls /\ [][NextCalls]_vars

-----------------------------------------------------------------------------
(* The Run Locator *)

\* The files that match a prefix in a directory: the files of the directory
\* whose name begins with the prefix, the '.pdf' ones left out
Candidates(dir, prefix, paths) ==
    {p \in paths : /\ StartsWith(p, PathIn(dir, prefix))
                   /\ "/" \notin Range(SubSeq(p, Len(PathIn(dir, prefix)) + 1, Len(p)))
                   /\ ~EndsWith(p, DotPdf)}

LocatorReturned == pc = "returned" /\ call.fn = "get_run_file"

\* C1: whatever the directory holds, the lookup of a run fails its assertion
\* when no file that is not a '.pdf' begins with the prefix, and when more
\* than one does; it never picks one of several candidates.
C1_Strict ==
    LocatorReturned =>
        (Cardinality(Candidates(DirName, RunNames[call.run], call.paths)) # 1
            => ~result.ok)

\* C2: the prefix of a run is '1-<mode>_Array<size><unit>_<freq>hz_s', and
\* when exactly one file that is not a '.pdf' begins with it, the lookup
\* returns the path of that file, which is a file of no other run of the grid.
C2_Resolves ==
    /\ RunNames[<<1, 1, 1>>] = <<"1", "-", "b", "a", "s", "e", "_", "A", "r", "r", "a",
                                 "y", "1", "k", "_", "1", "0", "0", "h", "z", "_", "s">>
    /\ RunNames[<<2, 4, 4>>] = <<"1", "-", "t", "r", "a", "c", "e", "_", "A", "r", "r",
                                 "a", "y", "2", "5", "6", "k", "_", "2", "0", "0", "0",
                                 "h", "z", "_", "s">>
    /\ LocatorReturned =>
          (Cardinality(Candidates(DirName, RunNames[call.run], call.paths)) = 1
              => /\ result.ok
                 /\ result.path \in Candidates(DirName, RunNames[call.run], call.paths)
                 /\ \A q \in Runs \ {call.run} :
                        result.path \notin Candidates(DirName, RunNames[q], call.paths))

-----------------------------------------------------------------------------
(* The command line and the run as a whole *)

Terminated == pc \in {"done", "aborted"}

\* C3 as stated: main returns 1 exactly when the number of arguments is not
\* 1, having printed the error message and done nothing else; in every other
\* case the exit status of the process is 0.
C3_ExitCode ==
    Terminated =>
        /\ ret = <<1>> <=> Len(argv) # 1
        /\ Len(argv) # 1 => /\ stdout = <<"error: must provide only 1 argument">>
                            /\ experiment_dir = None
                            /\ lookups = <<>>
                            /\ written = <<>>
        /\ Len(argv) = 1 => exit_code = <<0>>

\* C3: main returns 1 exactly when the number of arguments is not 1, having
\* printed the error message and done nothing else (the exit status is then
\* 1); with one argument the exit status is 0 exactly when main returns,
\* which it does with 0, and it is 1 when an uncaught exception ends the
\* process before main returns.
C3_ExitCodeUnlessAborted ==
    Terminated =>
        /\ ret = <<1>> <=> Len(argv) # 1
        /\ Len(argv) # 1 => /\ stdout = <<"error: must provide only 1 argument">>
                            /\ experiment_dir = None
                            /\ lookups = <<>>
                            /\ written = <<>>
                            /\ exit_code = <<1>>
        /\ Len(argv) = 1 => /\ pc = "done" => ret = <<0>> /\ exit_code = <<0>>
                            /\ pc = "aborted" => ret = None /\ exit_code = <<1>>

\* a command line with two arguments has been turned down
C3_Witness == pc = "done" /\ Len(argv) = 2 /\ ret = <<1>> /\ exit_code = <<1>>

\* The runs of the grid that are missing (no candidate) or ambiguous (several
\* candidates) in the directory named on the command line
Unresolved ==
    {r \in Runs :
        Cardinality(Candidates(strip(argv[1]), RunNames[r], InputPaths(disk))) # 1}

\* the place of a run in the order of the lookups: base before trace, message
\* sizes outer, frequencies inner
Rank(r) == ((r[1] - 1) * Len(msgs) + (r[2] - 1)) * Len(freqs) + r[3]

RunLooked(l) ==
    CHOOSE r \in Runs : /\ modes[r[1]] = l.mode
                        /\ msgs[r[2]][1] = l.msg
                        /\ freqs[r[3]] = l.freq

FirstOf(runs) == CHOOSE r \in runs : \A q \in runs : Rank(r) <= Rank(q)

AbortedAt(first) ==
    /\ written = <<>>
    /\ table = <<>>
    /\ pc \in {"plot_mode", "aborted"}
    /\ \A i \in DOMAIN lookups : /\ Rank(RunLooked(lookups[i])) = i
                                 /\ i <= Rank(first)
                                 /\ lookups[i].ok <=> i < Rank(first)
    /\ pc = "aborted" <=> Len(lookups) = Rank(first)

\* C4: when a run of the grid is missing or ambiguous, the invocation aborts
\* at the first such run in the order of the lookups: the runs before it are
\* looked up once each, no run after it is looked up, and no artifact is
\* written.
C4_AbortIsTotal ==
    (Len(argv) = 1 /\ pc # "main" /\ Unresolved # {}) => AbortedAt(FirstOf(Unresolved))

Artifacts(dir) ==
    <<PathIn(dir, figure_latencies \o Png), PathIn(dir, figure_latencies \o Svg),
      PathIn(dir, figure_latencies \o DotPdf), PathIn(dir, table_filename \o Tex),
      PathIn(dir, figure_overhead \o Png), PathIn(dir, figure_overhead \o Svg),
      PathIn(dir, figure_overhead \o DotPdf)>>

\* C5: in raw mode, when every run of the grid has exactly one candidate in
\* the directory, no assertion fails and main returns 0 having written the
\* latencies chart (png, svg, pdf), the table and the overhead chart (png,
\* svg, pdf), in this order, once each.
C5_EndToEnd ==
    (Len(argv) = 1 /\ has_raw_latency_data /\ Unresolved = {}) =>
        /\ pc # "aborted"
        /\ Len(written) <= 7
        /\ written = SubSeq(Artifacts(strip(argv[1])), 1, Len(written))
        /\ pc = "done" => /\ ret = <<0>>
                          /\ written = Artifacts(strip(argv[1]))

-----------------------------------------------------------------------------
(* The aggregation *)

\* a sample of a raw logfile (a whole number of thousandths of a second) in
\* milliseconds
InMs(v) == (1000 * v.n) \div v.d

\* the sum of the samples of a raw logfile, in milliseconds
RECURSIVE SumMs(_)
SumMs(s) == IF s = <<>> THEN 0 ELSE InMs(Head(s).v) * Head(s).n + SumMs(Tail(s))

\* the number of samples of a raw logfile
RECURSIVE Samples(_)
Samples(s) == IF s = <<>> THEN 0 ELSE Head(s).n + Samples(Tail(s))

\* x is the number num / den (den # 0)
IsRatio(x, num, den) == IsFin(x) /\ x.n * den = x.d * num

DiffReturned == pc = "returned" /\ call.fn = "plot_diff_run"

\* the mean of the base logfile of the call is 0
BaseMeanZero == SumMs(call.base) = 0

\* the means of the two logfiles of the call are equal
SameMeans ==
    SumMs(call.trace) * Samples(call.base) = SumMs(call.base) * Samples(call.trace)

\* the absolute overhead recorded is t - b, for the means b and t of the base
\* and traced logfiles of the call
DiffRecorded ==
    IsRatio(result.latency_mean_diff,
            SumMs(call.trace) * Samples(call.base) - SumMs(call.base) * Samples(call.trace),
            Samples(call.base) * Samples(call.trace))

\* the percentage recorded is 100 * (t - b) / b
PercentRecorded ==
    IsRatio(result.percent,
            100 * (SumMs(call.trace) * Samples(call.base)
                    - SumMs(call.base) * Samples(call.trace)),
            SumMs(call.base) * Samples(call.trace))

\* C6 as stated: the overheads recorded for a base mean b and a traced mean t
\* are t - b and 100 * (t - b) / b, and both are 0 when t = b, whatever the
\* mean.
C6_Overheads ==
    DiffReturned =>
        /\ DiffRecorded
        /\ ~BaseMeanZero => PercentRecorded
        /\ SameMeans => result.latency_mean_diff = Num(0) /\ result.percent = Num(0)

\* C6: the overheads recorded for a base mean b and a traced mean t are
\* t - b and, for b # 0, 100 * (t - b) / b; both are 0 when t = b # 0.  For
\* b = 0 the percentage is no number: nan when t = 0 and infinite otherwise.
C6_OverheadsOfNonZeroBase ==
    DiffReturned =>
        /\ DiffRecorded
        /\ ~BaseMeanZero => PercentRecorded
        /\ SameMeans => result.latency_mean_diff = Num(0)
        /\ SameMeans /\ ~BaseMeanZero => result.percent = Num(0)
        /\ BaseMeanZero => result.percent = (IF SameMeans THEN NaN ELSE PosInf)

\* the overheads of two logfiles with the same non-zero mean have been
\* recorded
C6_Witness ==
    /\ DiffReturned
    /\ ~BaseMeanZero
    /\ SameMeans
    /\ result.percent = Num(0)

TableReturned == pc = "returned" /\ call.fn = "get_latency_data"

RECURSIVE Received(_)
Received(w) == IF w = <<>> THEN 0 ELSE Head(w).received + Received(Tail(w))

\* sum(received_i * mean_i), for window means that are whole numbers
RECURSIVE Weighted(_)
Weighted(w) ==
    IF w = <<>> THEN 0
    ELSE Head(w).received * Head(w).latency_mean.n + Weighted(Tail(w))

RawReturned == pc = "returned" /\ call.fn = "get_latency_data_raw"

Least(S) == CHOOSE x \in S : \A y \in S : x <= y

Greatest(S) == CHOOSE x \in S : \A y \in S : x >= y

-----------------------------------------------------------------------------
(* The frequency estimate *)

FreqReturned == pc = "returned" /\ call.fn = "plot_mode_run"

\* how far the number of samples of the call is from 3600 * freq
Off == Abs(3600 * call.freq - call.count)

\* the estimate printed is the number of samples / 3600
EstimatePrinted ==
    /\ Len(result.printed) = 1
    /\ result.printed[1].freq = call.freq
    /\ result.printed[1].approx_freq.val = Fin(call.count, 3600)

\* the statistics of the run are those of its samples of 1 ms, whatever the
\* verdict
Aggregated ==
    /\ result.latency_mean = (IF call.count = 0 THEN NaN ELSE Num(1))
    /\ Len(result.entry) = 1
    /\ result.entry[1].mean = result.latency_mean
    /\ result.entry[1].min = result.latency_mean
    /\ result.entry[1].max = result.latency_mean

\* C9 as stated: the estimate is the number of samples / 3600, and a run is
\* reported good exactly when the number of samples is not 0 and at most
\* 360 off 3600 * freq; the verdict changes nothing of the statistics.
C9_FrequencyVerdict ==
    FreqReturned =>
        /\ EstimatePrinted
        /\ result.printed[1].good <=> (call.count > 0 /\ Off <= 360)
        /\ Aggregated

\* C9: the estimate is the number of samples / 3600; a run that delivered
\* 3600 * freq samples is reported good, and so is every run whose number of
\* samples is not 0 and less than 360 off 3600 * freq; a run more than 360
\* off, or without sample, is reported bad; a run exactly 360 off is
\* reported good for the frequencies 100 and 2000 and bad for 500 and 1000;
\* the verdict changes nothing of the statistics.
C9_FrequencyVerdictOffBoundary ==
    FreqReturned =>
        /\ EstimatePrinted
        /\ call.count = 3600 * call.freq => result.printed[1].good
        /\ (call.count > 0 /\ Off < 360) => result.printed[1].good
        /\ (call.count = 0 \/ Off > 360) => ~result.printed[1].good
        /\ Off = 360 => (result.printed[1].good <=> call.freq \in {100, 2000})
        /\ Aggregated

\* a run that delivered 3600 * freq samples has been reported good, at 500 Hz
C9_Witness ==
    /\ FreqReturned
    /\ call.freq = 500
    /\ call.count = 3600 * 500
    /\ result.printed[1].good

-----------------------------------------------------------------------------
(* The table *)

\* the table file has been written to its end
TableWritten == table # <<>> /\ table[Len(table)].kind = "after"

\* The lines of pair number k (message size m, frequency f, numbered in the
\* order of the configuration): a row 'N' with the frequency cell, and with
\* the message size cell for the first frequency, a row 'Y' without either,
\* then '\cline{2-7}', or '\hline' after the last frequency, or the footer
\* after the last message size.  Every line but the first is one of these.
PairAt(m, f, i) ==
    /\ table[i].kind = "row"
    /\ table[i].col_type = "N"
    /\ table[i].freq_col = <<2, freqs[f]>>
    /\ table[i].msg_col = (IF f = 1 THEN <<2 * Len(freqs), msgs[m][1]>> ELSE <<>>)
    /\ table[i].d_mean = Fmt3(data[1][msgs[m]][freqs[f]].mean)
    /\ table[i + 1].kind = "row"
    /\ table[i + 1].col_type = "Y"
    /\ table[i + 1].freq_col = <<>>
    /\ table[i + 1].msg_col = <<>>
    /\ table[i + 1].d_mean = Fmt3(data[2][msgs[m]][freqs[f]].mean)
    /\ table[i + 2].kind = (IF f < Len(freqs) THEN "cline"
                            ELSE IF m < Len(msgs) THEN "hline" ELSE "after")

\* C10: the table has 2 * |msgs| * |freqs| rows, in the order of the message
\* sizes, then of the frequencies; every (size, frequency) gives a row 'N'
\* followed by a row 'Y'; the message size cell is on the 'N' row of the
\* first frequency of every message size only; '\cline{2-7}' follows every
\* pair but the last of a message size, '\hline' every message size but the
\* last.
C10_TableLayout ==
    TableWritten =>
        /\ Len(table) = 3 * Len(msgs) * Len(freqs) + 1
        /\ table[1].kind = "before"
        /\ \A m \in DOMAIN msgs, f \in DOMAIN freqs :
              PairAt(m, f, 3 * ((m - 1) * Len(freqs) + f) - 1)
        /\ Cardinality({i \in DOMAIN table : table[i].kind = "row"})
              = 2 * Len(msgs) * Len(freqs)
        /\ Cardinality({i \in DOMAIN table : table[i].msg_col # <<>>}) = Len(msgs)
        /\ Cardinality({i \in DOMAIN table : table[i].kind = "cline"})
              = Len(msgs) * (Len(freqs) - 1)
        /\ Cardinality({i \in DOMAIN table : table[i].kind = "hline"}) = Len(msgs) - 1

\* the table of a complete run has been written
C10_Witness == TableWritten /\ pc = "done" /\ ret = <<0>>

-----------------------------------------------------------------------------
(* Summarized mode *)

\* the data of a mode has an entry for every message size and frequency
Complete(d) ==
    \A m \in DOMAIN msgs, f \in DOMAIN freqs : HasEntry(d, msgs[m], freqs[f])

\* the rows of the table tagged `col_type`
RowsTagged(col_type) ==
    {i \in DOMAIN table : table[i].kind = "row" /\ table[i].col_type = col_type}

\* C11: in summarized mode (has_raw_latency_data false), when every run file
\* of the grid is found, the data plot_mode hands to export_table has an
\* entry for every message size and every frequency in both modes, nothing
\* raises, and main returns 0 having written the latencies chart, the table
\* with one 'N' row and one 'Y' row per (message size, frequency), and the
\* overhead chart.
C11_SummarizedMode ==
    (~has_raw_latency_data /\ Len(argv) = 1) =>
        /\ pc = "export_table" => Complete(data[1]) /\ Complete(data[2])
        /\ pc = "aborted" => \E i \in DOMAIN lookups : ~lookups[i].ok
        /\ pc = "done" =>
              /\ ret = <<0>>
              /\ written = Artifacts(strip(argv[1]))
              /\ TableWritten
              /\ Cardinality(RowsTagged("N")) = Len(msgs) * Len(freqs)
              /\ Cardinality(RowsTagged("Y")) = Len(msgs) * Len(freqs)

====
